---- MODULE Spec2Model ----
(***************************************************************************)
(* DASH-to-HLS gateway: the stream manager (src/main.rs) and the           *)
(* per-stream converter with its worker loop (src/dash_to_hls.rs).         *)
(*                                                                         *)
(* Threads: the HTTP handlers (each runs with the manager mutex held from  *)
(* its first statement to its return), the cleanup thread, and one worker  *)
(* thread per converter.  A converter is an Arc<Mutex<DashToHlsConverter>> *)
(* and is named here by its allocation number 1..MaxConv.                  *)
(***************************************************************************)
EXTENDS Integers, Sequences, FiniteSets, TLC

\* ------------------------------------------------------------------ bounds
MaxConv == 2      \* converters ever constructed
MaxUrl == 2       \* segment URLs of one side are numbered 1..MaxUrl
MaxLen == 2       \* longest segment list a manifest yields
MaxWrites == 2    \* muxed pairs one converter's writer accepts
MaxEntries == 2   \* S elements of a SegmentTimeline
MaxRepeat == 3    \* largest r of an S element
MaxOver == 2      \* segments a representation has beyond the live window
MaxData == 2      \* bytes of a segment handed to decrypt_segment
MaxSets == 2      \* adaptation sets of a period

\* ------------------------------------------------------- program constants
Timeout == 2      \* start_cleanup_thread(120, ..): 120 s, counted in minutes
LiveWindow == 20  \* extract_segments: the 20 of lines 379, 440 and 444

Channels == {"c1"}                 \* ids of channels.toml
Ids == Channels \cup {"zz"}        \* ids a request may carry
Convs == 1..MaxConv
NoConv == 0                        \* key absent from active_streams
NoEntry == -1                      \* key absent from last_access

\* The segment lists extract_segments can return for one side: a window of
\* consecutive timeline entries (empty when the side is unresolved).
Window(lo, n) == [k \in 1..n |-> lo + k - 1]
UrlLists(maxUrl, maxLen) ==
    {Window(w[1], w[2]) :
        w \in {x \in (1..maxUrl) \X (0..maxLen) : x[1] + x[2] - 1 <= maxUrl}}
\* What process_mpd can return on success: <<video_segments, audio_segments>>
Manifests == UrlLists(MaxUrl, MaxLen) \X UrlLists(MaxUrl, MaxLen)
\* The manifests of a presentation that only grows: both sides list the
\* segments 1..n
GrowingManifests == {<<Window(1, n), Window(1, n)>> : n \in 0..MaxLen}
NoSegs == <<<<>>, <<>>>>

\* The two sides of a presentation; init_segments is keyed by them
Kinds == {"video", "audio"}
\* Lines 517-541 for one side: the manifest names no initialization URL
\* ("none"), or it does and the fetch gives the bytes ("ok") or fails ("fail")
NoInits == [k \in Kinds |-> "none"]
AnyInits == [Kinds -> {"none", "ok", "fail"}]
\* Where lines 559-574 can fail with `?`: the video download/decrypt/write
\* (559-564), the audio one (566-571), the mux (574)
FailPoints == {"video", "audio", "mux"}

Contains(list, u) == \E k \in 1..Len(list) : list[k] = u
Min(a, b) == IF a < b THEN a ELSE b

VARIABLES
    \* StreamManager, behind Arc<Mutex<StreamManager>>
    active_streams,   \* id -> converter number, NoConv when absent
    last_access,      \* id -> age of the recorded Instant, NoEntry when absent
    mgrLock,          \* "free" | "evictor"
    mgrPoisoned,      \* a handler panicked with the guard alive
    dirs,             \* id -> ./streams/<id> exists
    resp,             \* what the last HTTP handler answered
    \* cleanup thread
    evPc,             \* "sleep" | "stop" | "remove" | "dead"
    to_remove,        \* ids still to process in this sweep
    evCur,            \* id of the current for-iteration
    \* converters
    nconv,            \* converters constructed so far
    stream,           \* conv -> stream_info.id
    is_active,        \* conv -> DashToHlsConverter.is_active
    sequence_number,  \* conv -> DashToHlsConverter.sequence_number
    init_segments,    \* conv -> kinds cached in stream_info.init_segments
    temp,             \* conv -> files present in temp_dir, <<kind, seq>>
    last_processed,   \* conv -> last_processed_segments
    writer,           \* conv -> "none" | "running" | "exited" (pusher.child)
    killSent,         \* conv -> child.kill() was issued
    written,          \* conv -> pairs accepted by pusher.ffmpeg_stdin
    convLock,         \* conv -> "free" | "worker" | "evictor"
    convPoisoned,     \* conv -> worker panicked with the guard alive
    \* worker thread of each converter
    pc,               \* conv -> "none" | "start" | "top" | "mpd" | "pairs"
                      \*         | "errsleep" | "done" | "panicked"
    segs,             \* conv -> <<video_segments, audio_segments>> of the iteration
    idx,              \* conv -> loop index i (0-based)
    init_urls,        \* conv -> sides whose video_init/audio_init is Some (line 502)
    \* one call of a function of dash_to_hls.rs taken on its own
    call,             \* the function and its arguments
    ret               \* [done |-> FALSE], or the value returned

mgrVars == <<active_streams, last_access, mgrLock, mgrPoisoned, dirs, resp>>
evVars == <<evPc, to_remove, evCur>>
convVars == <<nconv, stream, is_active, sequence_number, last_processed,
              writer, killSent, written, convLock, convPoisoned,
              init_segments, temp>>
workerVars == <<pc, segs, idx, init_urls>>
callVars == <<call, ret>>
vars == <<mgrVars, evVars, convVars, workerVars, callVars>>

\* The service as main() leaves it: the maps are empty, the cleanup thread
\* sleeps, no converter exists
ServiceInit ==
    /\ active_streams = [s \in Ids |-> NoConv]
    /\ last_access = [s \in Ids |-> NoEntry]
    /\ mgrLock = "free"
    /\ mgrPoisoned = FALSE
    /\ dirs = [s \in Ids |-> FALSE]
    /\ resp = "none"
    /\ evPc = "sleep"
    /\ to_remove = {}
    /\ evCur = "none"
    /\ nconv = 0
    /\ stream = [p \in Convs |-> "none"]
    /\ is_active = [p \in Convs |-> FALSE]
    /\ sequence_number = [p \in Convs |-> 0]
    /\ init_segments = [p \in Convs |-> {}]
    /\ temp = [p \in Convs |-> {}]
    /\ last_processed = [p \in Convs |-> NoSegs]
    /\ writer = [p \in Convs |-> "none"]
    /\ killSent = [p \in Convs |-> FALSE]
    /\ written = [p \in Convs |-> <<>>]
    /\ convLock = [p \in Convs |-> "free"]
    /\ convPoisoned = [p \in Convs |-> FALSE]
    /\ pc = [p \in Convs |-> "none"]
    /\ segs = [p \in Convs |-> NoSegs]
    /\ idx = [p \in Convs |-> 0]
    /\ init_urls = [p \in Convs |-> {}]

NoCall == [fn |-> "none"]
NoRet == [done |-> FALSE]

Init ==
    /\ ServiceInit
    /\ call = NoCall
    /\ ret = NoRet

\* stream_manager.lock().unwrap() returns a guard
MgrLockable == mgrLock = "free" /\ ~mgrPoisoned

\* ------------------------------------------------------------ HTTP handlers

\* What DashToHlsConverter::new can do
Outcomes == {"ok", "spawn", "dir", "temp"}

\* Mutant of ProxyStream: the timestamp is inserted without the
\* active_streams test.
ProxyStreamAlways(s) ==
    /\ MgrLockable
    /\ last_access' = [last_access EXCEPT ![s] = 0]
    /\ resp' = IF active_streams[s] # NoConv THEN "file" ELSE "Stream not active"
    /\ UNCHANGED <<active_streams, mgrLock, mgrPoisoned, dirs>>
    /\ UNCHANGED <<evVars, convVars, workerVars>>
    /\ UNCHANGED callVars

\* proxy_stream, lines 89-97: the touch. What follows only reads
\* ./streams/<id>/<file> and answers with it.
ProxyStream(s) ==
    /\ MgrLockable
    /\ IF active_streams[s] # NoConv
       THEN /\ last_access' = [last_access EXCEPT ![s] = 0]
            /\ resp' = "file"
       ELSE /\ resp' = "Stream not active"
            /\ UNCHANGED last_access
    /\ UNCHANGED <<active_streams, mgrLock, mgrPoisoned, dirs>>
    /\ UNCHANGED <<evVars, convVars, workerVars>>
    /\ UNCHANGED callVars

\* DashToHlsConverter::new, then lines 157-167 of initialize_stream: the
\* insert into active_streams and the thread::spawn of the worker
Construct(s, p) ==
    /\ nconv' = p
    /\ stream' = [stream EXCEPT ![p] = s]
    /\ is_active' = [is_active EXCEPT ![p] = FALSE]
    /\ sequence_number' = [sequence_number EXCEPT ![p] = 0]
    /\ last_processed' = [last_processed EXCEPT ![p] = NoSegs]
    /\ writer' = [writer EXCEPT ![p] = "running"]
    /\ active_streams' = [active_streams EXCEPT ![s] = p]
    /\ pc' = [pc EXCEPT ![p] = "start"]

\* Mutant of InitializeStream: the contains_key test of lines 137-142 is
\* missing.
InitializeStreamNoCheck(s, outcome) ==
    /\ MgrLockable
    /\ IF s \notin Channels
       THEN /\ resp' = "Stream not found"
            /\ UNCHANGED <<active_streams, last_access, mgrLock, mgrPoisoned, dirs>>
            /\ UNCHANGED <<convVars, workerVars>>
       ELSE /\ nconv < MaxConv
            /\ dirs' = IF outcome = "dir" THEN dirs ELSE [dirs EXCEPT ![s] = TRUE]
            /\ IF outcome = "ok"
               THEN /\ Construct(s, nconv + 1)
                    /\ resp' = "Stream initialization started"
                    /\ UNCHANGED <<last_access, mgrLock, mgrPoisoned>>
                    /\ UNCHANGED <<killSent, written, convLock, convPoisoned, segs, idx, init_urls>>
                    /\ UNCHANGED <<init_segments, temp>>
               ELSE IF outcome = "spawn"
               THEN /\ mgrPoisoned' = TRUE
                    /\ resp' = "panic"
                    /\ UNCHANGED <<active_streams, last_access, mgrLock>>
                    /\ UNCHANGED <<convVars, workerVars>>
               ELSE /\ resp' = "Failed to create converter"
                    /\ UNCHANGED <<active_streams, last_access, mgrLock, mgrPoisoned>>
                    /\ UNCHANGED <<convVars, workerVars>>
    /\ UNCHANGED evVars
    /\ UNCHANGED callVars

\* initialize_stream. outcome is what DashToHlsConverter::new does: "ok";
\* "spawn" when LiveHlsPusher::spawn fails and the unwrap() of line 130
\* panics while the manager guard is alive; "dir" when the output directory
\* cannot be created (lines 146 and 119) and "temp" when the scratch
\* directory cannot (lines 121-126), both returning Err to lines 151-154.
InitializeStream(s, outcome) ==
    /\ MgrLockable
    /\ IF s \notin Channels
       THEN /\ resp' = "Stream not found"
            /\ UNCHANGED <<active_streams, last_access, mgrLock, mgrPoisoned, dirs>>
            /\ UNCHANGED <<convVars, workerVars>>
       ELSE IF active_streams[s] # NoConv
       THEN /\ resp' = "Stream already active"
            /\ UNCHANGED <<active_streams, last_access, mgrLock, mgrPoisoned, dirs>>
            /\ UNCHANGED <<convVars, workerVars>>
       ELSE /\ nconv < MaxConv
            /\ dirs' = IF outcome = "dir" THEN dirs ELSE [dirs EXCEPT ![s] = TRUE]
            /\ IF outcome = "ok"
               THEN /\ Construct(s, nconv + 1)
                    /\ resp' = "Stream initialization started"
                    /\ UNCHANGED <<last_access, mgrLock, mgrPoisoned>>
                    /\ UNCHANGED <<killSent, written, convLock, convPoisoned, segs, idx, init_urls>>
                    /\ UNCHANGED <<init_segments, temp>>
               ELSE IF outcome = "spawn"
               THEN /\ mgrPoisoned' = TRUE
                    /\ resp' = "panic"
                    /\ UNCHANGED <<active_streams, last_access, mgrLock>>
                    /\ UNCHANGED <<convVars, workerVars>>
               ELSE /\ resp' = "Failed to create converter"
                    /\ UNCHANGED <<active_streams, last_access, mgrLock, mgrPoisoned>>
                    /\ UNCHANGED <<convVars, workerVars>>
    /\ UNCHANGED evVars
    /\ UNCHANGED callVars

\* ------------------------------------------------------------ the converter

\* DashToHlsConverter::start
Start(p) ==
    is_active' = [is_active EXCEPT ![p] = TRUE]

\* Mutant of Kill: the signal is one the child survives.
KillSurvived(p) ==
    /\ killSent' = [killSent EXCEPT ![p] = TRUE]
    /\ UNCHANGED writer

\* LiveHlsPusher::kill: child.kill() signals the child; it is never waited for
Kill(p) ==
    /\ killSent' = [killSent EXCEPT ![p] = TRUE]
    /\ writer' = [writer EXCEPT ![p] = "exited"]

\* DashToHlsConverter::stop
Stop(p) ==
    /\ is_active' = [is_active EXCEPT ![p] = FALSE]
    /\ Kill(p)

\* The ffmpeg child ends on its own (bad input, crash); nothing in the
\* program observes it.
WriterExits(p) ==
    /\ writer[p] = "running"
    /\ writer' = [writer EXCEPT ![p] = "exited"]
    /\ UNCHANGED <<nconv, stream, is_active, sequence_number, last_processed,
                   killSent, written, convLock, convPoisoned>>
    /\ UNCHANGED <<init_segments, temp>>
    /\ UNCHANGED <<mgrVars, evVars, workerVars>>
    /\ UNCHANGED callVars

\* The last Arc of converter p goes (the map entry and the worker's clone are
\* both gone): the mutex and the DashToHlsConverter in it, its flag, its
\* vectors and its pusher, are freed and the worker thread has ended. The
\* child process is not part of the struct: dropping a Child neither kills
\* nor waits for it. The path of the scratch directory goes with the struct:
\* nothing reads or writes that directory again.
Free(p) ==
    /\ is_active' = [is_active EXCEPT ![p] = FALSE]
    /\ last_processed' = [last_processed EXCEPT ![p] = NoSegs]
    /\ killSent' = [killSent EXCEPT ![p] = FALSE]
    /\ written' = [written EXCEPT ![p] = <<>>]
    /\ convPoisoned' = [convPoisoned EXCEPT ![p] = FALSE]
    /\ init_segments' = [init_segments EXCEPT ![p] = {}]
    /\ temp' = [temp EXCEPT ![p] = {}]
    /\ pc' = [pc EXCEPT ![p] = "done"]

\* A stopped converter whose handle has left the map is held by its worker
\* alone, which reads the flag once more and breaks (lines 623-626); the
\* vectors, the cached init segments and the scratch files are never read
\* again and are not tracked any further.
Forget(p) ==
    /\ last_processed' = [last_processed EXCEPT ![p] = NoSegs]
    /\ written' = [written EXCEPT ![p] = <<>>]
    /\ init_segments' = [init_segments EXCEPT ![p] = {}]
    /\ temp' = [temp EXCEPT ![p] = {}]

InMap(p) == active_streams[stream[p]] = p

\* run_streaming_loop, lines 616-619: lock, start(), unlock
WorkerStart(p) ==
    /\ pc[p] = "start"
    /\ convLock[p] = "free"
    /\ Start(p)
    /\ pc' = [pc EXCEPT ![p] = "top"]
    /\ UNCHANGED <<nconv, stream, sequence_number, last_processed, writer,
                   killSent, written, convLock, convPoisoned>>
    /\ UNCHANGED <<init_segments, temp>>
    /\ UNCHANGED <<mgrVars, evVars, segs, idx, init_urls>>
    /\ UNCHANGED callVars

\* run_streaming_loop, lines 623-626: lock, test the flag, break or go on
\* into download_and_process_segments with the guard alive
LoopTop(p) ==
    /\ pc[p] = "top"
    /\ convLock[p] = "free"
    /\ IF ~is_active[p]
       THEN /\ IF InMap(p)
               THEN /\ pc' = [pc EXCEPT ![p] = "done"]
                    /\ UNCHANGED <<is_active, last_processed, killSent, written,
                                   convPoisoned, init_segments, temp>>
               ELSE Free(p)
            /\ UNCHANGED convLock
       ELSE /\ pc' = [pc EXCEPT ![p] = "mpd"]
            /\ convLock' = [convLock EXCEPT ![p] = "worker"]
            /\ UNCHANGED <<is_active, last_processed, killSent, written,
                           convPoisoned, init_segments, temp>>
    /\ UNCHANGED <<nconv, stream, sequence_number, writer>>
    /\ UNCHANGED <<mgrVars, evVars, segs, idx, init_urls>>
    /\ UNCHANGED callVars

\* leaving the iteration: the locals go, the guard is dropped, sleep(1 s)
EndIteration(p) ==
    /\ pc' = [pc EXCEPT ![p] = "top"]
    /\ segs' = [segs EXCEPT ![p] = NoSegs]
    /\ idx' = [idx EXCEPT ![p] = 0]
    /\ init_urls' = [init_urls EXCEPT ![p] = {}]
    /\ convLock' = [convLock EXCEPT ![p] = "free"]

\* download_and_process_segments returns Err: its locals go, and the loop
\* is in its Err arm
ErrReturn(p) ==
    /\ pc' = [pc EXCEPT ![p] = "errsleep"]
    /\ segs' = [segs EXCEPT ![p] = NoSegs]
    /\ idx' = [idx EXCEPT ![p] = 0]
    /\ init_urls' = [init_urls EXCEPT ![p] = {}]

\* process_mpd fails (line 502, `?`): fetch, status, parse or
\* "Could not find segment information"; the loop logs and sleeps 1 s
\* with the guard still alive (line 633)
MpdError(p) ==
    /\ pc[p] = "mpd"
    /\ ErrReturn(p)
    /\ UNCHANGED <<mgrVars, evVars, convVars>>
    /\ UNCHANGED callVars

\* process_mpd panics: the unwrap()s of extract_segments (lines 355-356,
\* 407-408) on a base URL that cannot be a base or a reference that does
\* not join. The worker thread ends and the converter mutex is poisoned.
MpdPanic(p) ==
    /\ pc[p] = "mpd"
    /\ IF InMap(p)
       THEN /\ pc' = [pc EXCEPT ![p] = "panicked"]
            /\ convPoisoned' = [convPoisoned EXCEPT ![p] = TRUE]
            /\ UNCHANGED <<is_active, last_processed, killSent, written,
                           init_segments, temp>>
       ELSE Free(p)
    /\ convLock' = [convLock EXCEPT ![p] = "free"]
    /\ UNCHANGED <<nconv, stream, sequence_number, writer>>
    /\ UNCHANGED <<mgrVars, evVars, segs, idx, init_urls>>
    /\ UNCHANGED callVars

\* Mutant of MpdOk: the comparison of lines 505-509 is missing.
MpdOkNoCompare(p, m, ini) ==
    /\ pc[p] = "mpd"
    /\ pc' = [pc EXCEPT ![p] = "pairs"]
    /\ segs' = [segs EXCEPT ![p] = m]
    /\ idx' = [idx EXCEPT ![p] = 0]
    /\ init_urls' = [init_urls EXCEPT ![p] = {k \in Kinds : ini[k] # "none"}]
    /\ init_segments' =
          [init_segments EXCEPT ![p] =
              {k \in Kinds : IF ini[k] = "none" THEN k \in init_segments[p]
                                                ELSE ini[k] = "ok"}]
    /\ UNCHANGED <<nconv, stream, is_active, sequence_number, last_processed,
                   writer, killSent, written, convLock, convPoisoned, temp>>
    /\ UNCHANGED <<mgrVars, evVars, callVars>>

\* the sides for which process_mpd returned Some(init URL)
Declared(ini) == {k \in Kinds : ini[k] # "none"}

\* lines 517-541: a side with an initialization URL has its cached entry
\* removed, and inserted again only when the fetch gives the bytes
InitFetch(cache, ini) ==
    {k \in Kinds : IF ini[k] = "none" THEN k \in cache ELSE ini[k] = "ok"}

\* process_mpd returns the lists m (and the initialization URLs, fetched
\* with outcome ini); lines 505-509 return early when nothing is new
MpdOk(p, m, ini) ==
    /\ pc[p] = "mpd"
    /\ IF m = last_processed[p]
       THEN /\ EndIteration(p)
            /\ UNCHANGED init_segments
       ELSE /\ pc' = [pc EXCEPT ![p] = "pairs"]
            /\ segs' = [segs EXCEPT ![p] = m]
            /\ idx' = [idx EXCEPT ![p] = 0]
            /\ init_urls' = [init_urls EXCEPT ![p] = Declared(ini)]
            /\ init_segments' =
                  [init_segments EXCEPT ![p] = InitFetch(init_segments[p], ini)]
            /\ UNCHANGED convLock
    /\ UNCHANGED <<nconv, stream, is_active, sequence_number, last_processed,
                   writer, killSent, written, convPoisoned, temp>>
    /\ UNCHANGED <<mgrVars, evVars>>
    /\ UNCHANGED callVars

min_len(p) == Min(Len(segs[p][1]), Len(segs[p][2]))
video_url(p) == segs[p][1][idx[p] + 1]
audio_url(p) == segs[p][2][idx[p] + 1]

\* lines 553-554
AlreadyProcessed(p) ==
    /\ Contains(last_processed[p][1], video_url(p))
    /\ Contains(last_processed[p][2], audio_url(p))

InLoop(p) == pc[p] = "pairs" /\ idx[p] < min_len(p) /\ is_active[p]

\* lines 553-557: continue
PairSkip(p) ==
    /\ InLoop(p)
    /\ AlreadyProcessed(p)
    /\ idx' = [idx EXCEPT ![p] = idx[p] + 1]
    /\ UNCHANGED <<mgrVars, evVars, convVars, pc, segs, init_urls>>
    /\ UNCHANGED callVars

\* lines 561-563 and 568-570: the scratch files of the pair in hand
video_file(p) == <<"video", sequence_number[p]>>
audio_file(p) == <<"audio", sequence_number[p]>>

\* the files lines 564 and 571 have written when the pair fails at `at`
FilesAt(p, at) ==
    CASE at = "video" -> {}
      [] at = "audio" -> {video_file(p)}
      [] at = "mux" -> {video_file(p), audio_file(p)}

\* Mutant of PairFail: the lists are stored although the pair failed.
PairFailStoring(p, at) ==
    /\ pc[p] = "pairs" /\ idx[p] < Min(Len(segs[p][1]), Len(segs[p][2]))
    /\ is_active[p]
    /\ ~(/\ Contains(last_processed[p][1], segs[p][1][idx[p] + 1])
         /\ Contains(last_processed[p][2], segs[p][2][idx[p] + 1]))
    /\ ErrReturn(p)
    /\ last_processed' = [last_processed EXCEPT ![p] = segs[p]]
    /\ UNCHANGED <<nconv, stream, is_active, sequence_number,
                   writer, killSent, written, convLock, convPoisoned,
                   init_segments, temp>>
    /\ UNCHANGED <<mgrVars, evVars, callVars>>

\* lines 559-574 fail with `?` at the point `at`: a download, decrypt,
\* fs::write or mux error
PairFail(p, at) ==
    /\ InLoop(p)
    /\ ~AlreadyProcessed(p)
    /\ ErrReturn(p)
    /\ temp' = [temp EXCEPT ![p] = temp[p] \cup FilesAt(p, at)]
    /\ UNCHANGED <<nconv, stream, is_active, sequence_number, last_processed,
                   writer, killSent, written, convLock, convPoisoned,
                   init_segments>>
    /\ UNCHANGED <<mgrVars, evVars>>
    /\ UNCHANGED callVars

\* Mutant of Write: the bytes stay in a buffer, nothing reaches the child.
WriteUnflushed(p, data) ==
    /\ idx' = [idx EXCEPT ![p] = idx[p] + 1]
    /\ UNCHANGED <<written, pc, segs, init_urls>>

\* LiveHlsPusher::write: write_all + flush on the child's stdin; a child
\* that has ended gives a broken pipe
Write(p, data) ==
    IF writer[p] = "running"
    THEN /\ written' = [written EXCEPT ![p] = Append(written[p], data)]
         /\ idx' = [idx EXCEPT ![p] = idx[p] + 1]
         /\ UNCHANGED <<pc, segs, init_urls>>
    ELSE /\ ErrReturn(p)
         /\ UNCHANGED written

\* lines 559-578 succeed up to the mux; then pusher.write, and on its
\* success the two remove_file of lines 577-578
PairWrite(p) ==
    /\ InLoop(p)
    /\ ~AlreadyProcessed(p)
    /\ Len(written[p]) < MaxWrites
    /\ Write(p, <<video_url(p), audio_url(p)>>)
    /\ temp' = [temp EXCEPT ![p] =
                  IF writer[p] = "running"
                  THEN temp[p] \ {video_file(p), audio_file(p)}
                  ELSE temp[p] \cup {video_file(p), audio_file(p)}]
    /\ UNCHANGED <<nconv, stream, is_active, sequence_number, last_processed,
                   writer, killSent, convLock, convPoisoned, init_segments>>
    /\ UNCHANGED <<mgrVars, evVars>>
    /\ UNCHANGED callVars

\* the for loop ends (or breaks at line 547); line 581 stores the lists
IterationDone(p) ==
    /\ pc[p] = "pairs"
    /\ ~InLoop(p)
    /\ last_processed' = [last_processed EXCEPT ![p] = segs[p]]
    /\ EndIteration(p)
    /\ UNCHANGED <<nconv, stream, is_active, sequence_number, writer, killSent,
                   written, convPoisoned, init_segments, temp>>
    /\ UNCHANGED <<mgrVars, evVars>>
    /\ UNCHANGED callVars

\* Mutant of ErrSleep: the worker takes the manager mutex before it lets
\* the converter go.
ErrSleepLockingManager(p) ==
    /\ pc[p] = "errsleep"
    /\ MgrLockable
    /\ EndIteration(p)
    /\ UNCHANGED <<nconv, stream, is_active, sequence_number, last_processed,
                   writer, killSent, written, convPoisoned, init_segments, temp>>
    /\ UNCHANGED <<mgrVars, evVars>>
    /\ UNCHANGED callVars

\* line 633 then the end of the block: the error sleep ends, the guard drops
ErrSleep(p) ==
    /\ pc[p] = "errsleep"
    /\ EndIteration(p)
    /\ UNCHANGED <<nconv, stream, is_active, sequence_number, last_processed,
                   writer, killSent, written, convPoisoned, init_segments, temp>>
    /\ UNCHANGED <<mgrVars, evVars>>
    /\ UNCHANGED callVars

\* ------------------------------------------------------- the cleanup thread

\* Instant::now() moves on: every recorded Instant grows one unit older.
\* Ages past the timeout are all alike to line 240.
Tick ==
    /\ \E s \in Ids : last_access[s] \in 0..Timeout
    /\ last_access' = [s \in Ids |->
                          IF last_access[s] \in 0..Timeout
                          THEN last_access[s] + 1 ELSE last_access[s]]
    /\ UNCHANGED <<active_streams, mgrLock, mgrPoisoned, dirs, resp>>
    /\ UNCHANGED <<evVars, convVars, workerVars>>
    /\ UNCHANGED callVars

\* Mutant of Expired: >= in place of >.
ExpiredAtTimeout(age) == age >= Timeout

\* line 240: now.duration_since(*last_time) > timeout
Expired(age) == age > Timeout

\* lines 235-243: lock the manager, collect the ids to remove
EvictorSweep ==
    /\ evPc = "sleep"
    /\ MgrLockable
    /\ mgrLock' = "evictor"
    /\ to_remove' = {s \in Ids : last_access[s] # NoEntry /\ Expired(last_access[s])}
    /\ evPc' = "stop"
    /\ UNCHANGED <<active_streams, last_access, mgrPoisoned, dirs, resp, evCur>>
    /\ UNCHANGED <<convVars, workerVars>>
    /\ UNCHANGED callVars

\* line 235 on a poisoned manager mutex: unwrap() panics, the thread ends
EvictorPanic ==
    /\ evPc = "sleep"
    /\ mgrLock = "free"
    /\ mgrPoisoned
    /\ evPc' = "dead"
    /\ UNCHANGED <<mgrVars, to_remove, evCur, convVars, workerVars>>
    /\ UNCHANGED callVars

\* lines 245-253 for one id: lock the converter and stop it; a poisoned
\* converter mutex (Err) or a missing handle skips the stop
EvictorStop(s) ==
    /\ evPc = "stop"
    /\ s \in to_remove
    /\ LET p == active_streams[s] IN
         IF p # NoConv
         THEN /\ convLock[p] = "free"
              /\ IF convPoisoned[p]
                 THEN UNCHANGED <<is_active, killSent, writer>>
                 ELSE Stop(p)
         ELSE UNCHANGED <<is_active, killSent, writer>>
    /\ evCur' = s
    /\ to_remove' = to_remove \ {s}
    /\ evPc' = "remove"
    /\ UNCHANGED <<nconv, stream, sequence_number, last_processed, written,
                   convLock, convPoisoned, init_segments, temp>>
    /\ UNCHANGED <<mgrVars, workerVars>>
    /\ UNCHANGED callVars

\* Mutant of RemoveDirAll: the tree is left in place.
RemoveDirKept(d, s) == d

\* fs::remove_dir_all
RemoveDirAll(d, s) == [d EXCEPT ![s] = FALSE]

\* Mutant of EvictorRemove: the last_access.remove of line 255 is missing.
EvictorRemoveKeepingAccess ==
    /\ evPc = "remove"
    /\ active_streams' = [active_streams EXCEPT ![evCur] = NoConv]
    /\ UNCHANGED last_access
    /\ dirs' = RemoveDirAll(dirs, evCur)
    /\ LET p == active_streams[evCur] IN
         IF p # NoConv /\ pc[p] \in {"done", "panicked"}
         THEN Free(p)
         ELSE IF p # NoConv /\ ~is_active[p]
         THEN /\ Forget(p)
              /\ UNCHANGED <<is_active, killSent, convPoisoned, pc>>
         ELSE UNCHANGED <<is_active, last_processed, killSent, written,
                          convPoisoned, pc, init_segments, temp>>
    /\ evCur' = "none"
    /\ evPc' = "stop"
    /\ UNCHANGED <<mgrLock, mgrPoisoned, resp, to_remove>>
    /\ UNCHANGED <<nconv, stream, sequence_number, writer, convLock>>
    /\ UNCHANGED <<segs, idx, init_urls>>
    /\ UNCHANGED callVars

\* lines 254-259 for the same id
EvictorRemove ==
    /\ evPc = "remove"
    /\ active_streams' = [active_streams EXCEPT ![evCur] = NoConv]
    /\ last_access' = [last_access EXCEPT ![evCur] = NoEntry]
    /\ dirs' = RemoveDirAll(dirs, evCur)
    /\ LET p == active_streams[evCur] IN
         IF p # NoConv /\ pc[p] \in {"done", "panicked"}
         THEN Free(p)
         ELSE IF p # NoConv /\ ~is_active[p]
         THEN /\ Forget(p)
              /\ UNCHANGED <<is_active, killSent, convPoisoned, pc>>
         ELSE UNCHANGED <<is_active, last_processed, killSent, written,
                          convPoisoned, pc, init_segments, temp>>
    /\ evCur' = "none"
    /\ evPc' = "stop"
    /\ UNCHANGED <<mgrLock, mgrPoisoned, resp, to_remove>>
    /\ UNCHANGED <<nconv, stream, sequence_number, writer, convLock>>
    /\ UNCHANGED <<segs, idx, init_urls>>
    /\ UNCHANGED callVars

\* the for loop is over: the manager guard drops, sleep(15 s)
EvictorRelease ==
    /\ evPc = "stop"
    /\ to_remove = {}
    /\ mgrLock' = "free"
    /\ evPc' = "sleep"
    /\ UNCHANGED <<active_streams, last_access, mgrPoisoned, dirs, resp>>
    /\ UNCHANGED <<to_remove, evCur, convVars, workerVars>>
    /\ UNCHANGED callVars

\* What the origin of a channel can do: the manifests it serves, the
\* outcomes of the initialization fetches, the points where a pair fails.
\* A presentation that only grows, without initialization URLs:
GrowingOrigin ==
    [feed |-> GrowingManifests, inits |-> {NoInits}, faults |-> {"video"}]
\* Any window of the timeline on either side:
AnyOrigin ==
    [feed |-> Manifests, inits |-> {NoInits}, faults |-> {"video"}]
\* A growing presentation with initialization URLs whose fetch can fail,
\* and pairs that can fail at every point:
FailingOrigin ==
    [feed |-> GrowingManifests, inits |-> AnyInits, faults |-> FailPoints]

\* One worker step against the origin o
Worker(p, o) ==
    \/ WorkerStart(p)
    \/ LoopTop(p)
    \/ MpdError(p)
    \/ MpdPanic(p)
    \/ \E m \in o.feed, ini \in o.inits : MpdOk(p, m, ini)
    \/ PairSkip(p)
    \/ \E at \in o.faults : PairFail(p, at)
    \/ PairWrite(p)
    \/ IterationDone(p)
    \/ ErrSleep(p)

Evictor ==
    \/ EvictorSweep
    \/ EvictorPanic
    \/ \E s \in Ids : EvictorStop(s)
    \/ EvictorRemove
    \/ EvictorRelease

\* The whole service, the origins serving growing presentations.
Next ==
    \/ \E s \in Ids : ProxyStream(s)
    \/ \E s \in Ids, o \in Outcomes : InitializeStream(s, o)
    \/ Tick
    \/ Evictor
    \/ \E p \in Convs : Worker(p, GrowingOrigin)
    \/ \E p \in Convs : WriterExits(p)

Spec == Init /\ [][Next]_vars

\* One activation of a channel whose origin serves any window of its timeline.
PipeNext ==
    \/ \E s \in Ids : ProxyStream(s)
    \/ \E s \in Ids, o \in Outcomes : nconv = 0 /\ InitializeStream(s, o)
    \/ Tick
    \/ Evictor
    \/ \E p \in Convs : Worker(p, AnyOrigin)
    \/ \E p \in Convs : WriterExits(p)

PipeSpec == Init /\ [][PipeNext]_vars

\* One activation of a channel whose origin fails at any point.
ScratchNext ==
    \/ \E s \in Ids : ProxyStream(s)
    \/ \E s \in Ids, o \in Outcomes : nconv = 0 /\ InitializeStream(s, o)
    \/ Tick
    \/ Evictor
    \/ \E p \in Convs : Worker(p, FailingOrigin)
    \/ \E p \in Convs : WriterExits(p)

ScratchSpec == Init /\ [][ScratchNext]_vars

\* The service under the scheduling the code relies on: time passes, every
\* worker thread keeps running, and the cleanup thread keeps running and
\* gets a converter mutex that is free again and again (the worker sleeps
\* 1 s with the mutex free between two iterations).
LiveSpec ==
    /\ Init /\ [][Next]_vars
    /\ WF_vars(Tick)
    /\ SF_vars(Evictor)
    /\ \A p \in Convs : WF_vars(Worker(p, GrowingOrigin))

\* ----------------------------------------- functions taken on their own

\* Option<T>: None, Some(x), Option::unwrap_or
None == <<>>
Some(x) == <<x>>
unwrap_or(o, dflt) == IF o = None THEN dflt ELSE o[1]

\* dash_mpd::S: t and r are optional, d is not
SEntries ==
    [t : {None, Some(0), Some(5000)},
     d : {1000, 2000},
     r : {None} \cup {Some(k) : k \in (-1)..MaxRepeat}]
Timelines == UNION {[1..n -> SEntries] : n \in 0..MaxEntries}

\* lines 651-654: `for _ in 0..=repeat` pushes current_time and adds d,
\* repeat + 1 times (no time when the range is empty)
Pushes(cur, d, repeat) ==
    [k \in 1..(IF repeat >= 0 THEN repeat + 1 ELSE 0) |-> cur + (k - 1) * d]

\* Mutant of TimesFrom: the inner range is 0..repeat, exclusive.
RECURSIVE TimesFromExclusive(_, _)
TimesFromExclusive(timeline, cur) ==
    IF timeline = <<>>
    THEN <<>>
    ELSE LET item == Head(timeline)
             pushed == Pushes(cur, item.d, unwrap_or(item.r, 0) - 1)
         IN  pushed \o TimesFromExclusive(Tail(timeline), cur + Len(pushed) * item.d)

\* lines 649-655: the loop over the items, from current_time = cur
RECURSIVE TimesFrom(_, _)
TimesFrom(timeline, cur) ==
    IF timeline = <<>>
    THEN <<>>
    ELSE LET item == Head(timeline)
             pushed == Pushes(cur, item.d, unwrap_or(item.r, 0))
         IN  pushed \o TimesFrom(Tail(timeline), cur + Len(pushed) * item.d)

\* compute_segment_times: line 647 takes the first item's t, or 0
compute_segment_times(timeline) ==
    TimesFrom(timeline,
              unwrap_or(IF timeline = <<>> THEN None ELSE timeline[1].t, 0))

\* What extract_segments reads of a representation with a SegmentTemplate
\* and of its manifest: mpd.mpdtype = "dynamic" (live), the SegmentTimeline
\* if any, duration, timescale, the period's duration in seconds, and
\* whether the template has a media attribute.
\* Representations with a timeline of 0 to LiveWindow + MaxOver times:
TimelineReps ==
    {[live |-> l, timeline |-> Some(tl), duration |-> 1, timescale |-> 1,
      period_secs |-> 60, media |-> m] :
        l \in BOOLEAN, m \in BOOLEAN,
        tl \in {<<>>}
            \cup {<<[t |-> Some(5000), d |-> 1000, r |-> Some(n - 1)]>> :
                     n \in 1..(LiveWindow + MaxOver)}
            \cup {<<[t |-> None, d |-> 1000, r |-> Some(n - 2)],
                    [t |-> None, d |-> 2000, r |-> None]>> :
                     n \in 2..(LiveWindow + MaxOver)}}
\* Representations without a timeline, of 0 to LiveWindow + MaxOver segments:
DurationReps ==
    {[live |-> l, timeline |-> None, duration |-> d, timescale |-> 1,
      period_secs |-> n * d, media |-> m] :
        l \in BOOLEAN, m \in BOOLEAN, d \in {1, 2},
        n \in 0..(LiveWindow + MaxOver)}

\* lines 368-382
segment_count(rp) ==
    LET n == IF rp.timeline # None
             THEN Len(rp.timeline[1])
             ELSE (rp.period_secs * rp.timescale) \div rp.duration
    IN  IF rp.live THEN Min(LiveWindow, n) ELSE n

\* lines 384-391
times(rp) ==
    IF rp.timeline # None
    THEN compute_segment_times(rp.timeline[1])
    ELSE [i \in 1..segment_count(rp) |-> (i - 1) * rp.duration]

\* lines 395-414: the media template with $Time$ replaced
segment_url(time) == <<"media", time>>

\* lines 440-446: skip(len - n) when len > n
LastOf(list, n) ==
    IF Len(list) > n THEN SubSeq(list, Len(list) - n + 1, Len(list)) ELSE list

\* extract_segments for a representation with a SegmentTemplate: the
\* segment URLs it returns
extract_segments(rp) ==
    LET segments == IF rp.media
                    THEN [k \in 1..Len(times(rp)) |-> segment_url(times(rp)[k])]
                    ELSE <<>>
    IN  IF rp.live THEN LastOf(segments, LiveWindow) ELSE segments

\* Segment bytes, and what a decoder makes of them
Datas == UNION {[1..n -> {0, 1}] : n \in 0..MaxData}
Decoded(data) == [k \in 1..Len(data) |-> 1 - data[k]]

\* What the decoders can do with a keyed segment: mp4decrypt succeeds; or it
\* fails and the ffmpeg fallback gives output, gives none, cannot be
\* spawned, or breaks on its pipes
DecryptOutcomes == {"decoded", "fallback", "fallback_empty", "spawn_err", "pipe_err"}

\* Mutant of decrypt_segment: the test of the key is missing.
decrypt_segmentAlways(key, data, o) ==
    CASE o = "decoded" ->
           [ok |-> TRUE, bytes |-> Decoded(data), started |-> {"mp4decrypt"}]
      [] o = "fallback" ->
           [ok |-> TRUE, bytes |-> Decoded(data), started |-> {"mp4decrypt", "ffmpeg"}]
      [] o = "fallback_empty" ->
           [ok |-> TRUE, bytes |-> <<>>, started |-> {"mp4decrypt", "ffmpeg"}]
      [] o = "spawn_err" ->
           [ok |-> FALSE, bytes |-> <<>>, started |-> {"mp4decrypt"}]
      [] o = "pipe_err" ->
           [ok |-> FALSE, bytes |-> <<>>, started |-> {"mp4decrypt", "ffmpeg"}]

\* decrypt_segment: the Result, its bytes, and the decoders it started
decrypt_segment(key, data, o) ==
    IF key = ""
    THEN [ok |-> TRUE, bytes |-> data, started |-> {}]
    ELSE CASE o = "decoded" ->
                [ok |-> TRUE, bytes |-> Decoded(data), started |-> {"mp4decrypt"}]
           [] o = "fallback" ->
                [ok |-> TRUE, bytes |-> Decoded(data),
                 started |-> {"mp4decrypt", "ffmpeg"}]
           [] o = "fallback_empty" ->
                [ok |-> TRUE, bytes |-> <<>>, started |-> {"mp4decrypt", "ffmpeg"}]
           [] o = "spawn_err" ->
                [ok |-> FALSE, bytes |-> <<>>, started |-> {"mp4decrypt"}]
           [] o = "pipe_err" ->
                [ok |-> FALSE, bytes |-> <<>>, started |-> {"mp4decrypt", "ffmpeg"}]

\* ---- extract_segments_from_mpd: the choice of the two representations
\* A manifest is a sequence of periods, a period a sequence of adaptation
\* sets, an adaptation set the kinds its mimeType/contentType give it and
\* its representations, a representation its bandwidth (an Option).
video_index == 6
audio_index == 9

\* lines 213-214 and 220-221: the adaptation set is video-typed, audio-typed
IsKind(adaptation_set, k) == k \in adaptation_set.types

\* rep_index of the first representation of adaptation set ai of a period
\* (line 209 resets the counter for each period, line 229 counts on)
RECURSIVE RepsBefore(_, _)
RepsBefore(period, ai) ==
    IF ai = 1
    THEN 0
    ELSE RepsBefore(period, ai - 1) + Len(period[ai - 1].representations)

\* every adaptation set of the manifest, as <<period, adaptation set>>
SetRefs(mpd) ==
    UNION {{<<pi, ai>> : ai \in 1..Len(mpd[pi])} : pi \in 1..Len(mpd)}

\* every representation of the manifest, as <<period, adaptation set, index>>
RepRefs(mpd) ==
    UNION {{<<s[1], s[2], ri>> :
               ri \in 1..Len(mpd[s[1]][s[2]].representations)} :
           s \in SetRefs(mpd)}

\* document order
Before(x, y) ==
    \/ x[1] < y[1]
    \/ x[1] = y[1] /\ x[2] < y[2]
    \/ x[1] = y[1] /\ x[2] = y[2] /\ x[3] < y[3]

FirstRef(refs) ==
    IF refs = {} THEN None
    ELSE Some(CHOOSE x \in refs : \A y \in refs : y = x \/ Before(x, y))
LastRef(refs) ==
    IF refs = {} THEN None
    ELSE Some(CHOOSE x \in refs : \A y \in refs : y = x \/ Before(y, x))

\* the representations of kind k standing at rep_index = index
AtIndex(mpd, k, index) ==
    {x \in RepRefs(mpd) :
        /\ IsKind(mpd[x[1]][x[2]], k)
        /\ RepsBefore(mpd[x[1]], x[2]) + x[3] - 1 = index}

\* lines 208-232: each match assigns, so the last one in document order stays
PreferredPass(mpd) ==
    [video |-> LastRef(AtIndex(mpd, "video", video_index)),
     audio |-> LastRef(AtIndex(mpd, "audio", audio_index))]

bandwidth(rep) == unwrap_or(rep, 0)

\* Iterator::max_by_key (lines 245-248): the last of the greatest elements
max_by_key(representations) ==
    CHOOSE i \in 1..Len(representations) :
        /\ \A j \in 1..Len(representations) :
              bandwidth(representations[j]) <= bandwidth(representations[i])
        /\ \A j \in (i + 1)..Len(representations) :
              bandwidth(representations[j]) < bandwidth(representations[i])

\* lines 238-276, from adaptation set ai of period pi on, with the sides
\* found so far
RECURSIVE FallbackPass(_, _, _, _)
FallbackPass(mpd, pi, ai, found) ==
    IF pi > Len(mpd)
    THEN found
    ELSE IF ai > Len(mpd[pi])
    THEN FallbackPass(mpd, pi + 1, 1, found)
    ELSE LET adaptation_set == mpd[pi][ai]
             reps == adaptation_set.representations
             next ==
                IF IsKind(adaptation_set, "video") /\ found.video = None
                THEN IF reps # <<>>
                     THEN [found EXCEPT !.video = Some(<<pi, ai, max_by_key(reps)>>)]
                     ELSE found
                ELSE IF IsKind(adaptation_set, "audio") /\ found.audio = None
                THEN IF reps # <<>>
                     THEN [found EXCEPT !.audio = Some(<<pi, ai, 1>>)]
                     ELSE found
                ELSE found
         IN  FallbackPass(mpd, pi, ai + 1, next)

\* extract_segments_from_mpd: the representation each side's segments are
\* taken from (None when "No video/audio representation found"), every
\* extract_segments succeeding
select_representations(mpd) ==
    LET found == PreferredPass(mpd)
    IN  IF found.video = None \/ found.audio = None
        THEN FallbackPass(mpd, 1, 1, found)
        ELSE found

\* The manifests taken: one period of up to MaxSets adaptation sets, and
\* some of two periods.
SevenReps == [i \in 1..7 |-> Some(IF i = 7 THEN 1 ELSE 2)]
RepLists ==
    {<<>>, <<Some(1)>>, <<Some(2), Some(1)>>, <<None, Some(2)>>,
     <<Some(1), Some(2), Some(1)>>, SevenReps}
AdaptationSets ==
    {[types |-> ty, representations |-> reps] :
        ty \in SUBSET Kinds, reps \in RepLists}
Periods == UNION {[1..n -> AdaptationSets] : n \in 0..MaxSets}
SmallPeriods ==
    {<<>>,
     <<[types |-> {"video"}, representations |-> <<Some(1)>>]>>,
     <<[types |-> {"video"}, representations |-> SevenReps]>>,
     <<[types |-> {"audio"}, representations |-> <<Some(1)>>]>>}
MPDs ==
    {<<period>> : period \in Periods}
    \cup {<<p1, p2>> : p1 \in SmallPeriods, p2 \in SmallPeriods}

\* ---- extract_segments, lines 296-333: the base URL
\* A string is the sequence of its pieces: "http:" for a scheme and host,
\* "/" and names.
starts_with_http(s) == s # <<>> /\ s[1] = "http:"

\* str::trim_end_matches('/')
RECURSIVE trim_end_matches(_)
trim_end_matches(s) ==
    IF s # <<>> /\ s[Len(s)] = "/"
    THEN trim_end_matches(SubSeq(s, 1, Len(s) - 1))
    ELSE s

\* format!("{}/{}", base_url_str.trim_end_matches('/'), base)
Joined(base_url_str, base) == trim_end_matches(base_url_str) \o <<"/">> \o base

\* lines 298-333: base_url_str from the manifest URL, the first BaseURL of
\* the first period and the first BaseURL of the representation (Options).
\* Lines 300-303 read representation.BaseURL; the BaseURL of the MPD element
\* is not read.
base_url_str(mpd_url, period_base, rep_base) ==
    LET s1 == IF rep_base # None THEN rep_base[1] ELSE mpd_url
        s2 == IF period_base # None
              THEN IF starts_with_http(period_base[1])
                   THEN period_base[1]
                   ELSE Joined(s1, period_base[1])
              ELSE s1
    IN  IF rep_base # None
        THEN IF starts_with_http(rep_base[1])
             THEN rep_base[1]
             ELSE Joined(s2, rep_base[1])
        ELSE s2

\* The URLs taken
MpdUrls == {<<"http:", "/", "m">>, <<"http:", "/", "m", "/">>}
BaseURLs ==
    {None, Some(<<"http:", "/", "b">>), Some(<<"b">>), Some(<<"b", "/">>)}

\* The calls taken on their own
Calls ==
    {[fn |-> "compute_segment_times", timeline |-> tl] : tl \in Timelines}
    \cup {[fn |-> "extract_segments", rp |-> r] : r \in TimelineReps \cup DurationReps}
    \cup {[fn |-> "extract_segments_from_mpd", mpd |-> m] : m \in MPDs}
    \cup {[fn |-> "base_url_str", mpd_url |-> u, mpd_base |-> mb,
            period_base |-> pb, rep_base |-> rb] :
             u \in MpdUrls, mb \in BaseURLs, pb \in BaseURLs, rb \in BaseURLs}
    \cup {[fn |-> "decrypt_segment", key |-> k, data |-> d, decoders |-> o] :
             k \in {"", "k1"}, d \in Datas, o \in DecryptOutcomes}

CallInit ==
    /\ ServiceInit
    /\ call \in Calls
    /\ ret = NoRet

ComputeSegmentTimes ==
    /\ call.fn = "compute_segment_times"
    /\ ~ret.done
    /\ ret' = [done |-> TRUE, value |-> compute_segment_times(call.timeline)]
    /\ UNCHANGED <<mgrVars, evVars, convVars, workerVars, call>>

ExtractSegments ==
    /\ call.fn = "extract_segments"
    /\ ~ret.done
    /\ ret' = [done |-> TRUE, value |-> extract_segments(call.rp)]
    /\ UNCHANGED <<mgrVars, evVars, convVars, workerVars, call>>

DecryptSegment ==
    /\ call.fn = "decrypt_segment"
    /\ ~ret.done
    /\ ret' = [done |-> TRUE,
               value |-> decrypt_segment(call.key, call.data, call.decoders)]
    /\ UNCHANGED <<mgrVars, evVars, convVars, workerVars, call>>

ExtractSegmentsFromMpd ==
    /\ call.fn = "extract_segments_from_mpd"
    /\ ~ret.done
    /\ ret' = [done |-> TRUE, value |-> select_representations(call.mpd)]
    /\ UNCHANGED <<mgrVars, evVars, convVars, workerVars, call>>

BaseUrlStr ==
    /\ call.fn = "base_url_str"
    /\ ~ret.done
    /\ ret' = [done |-> TRUE,
               value |-> base_url_str(call.mpd_url, call.period_base, call.rep_base)]
    /\ UNCHANGED <<mgrVars, evVars, convVars, workerVars, call>>

CallNext ==
    \/ ComputeSegmentTimes
    \/ BaseUrlStr
    \/ ExtractSegmentsFromMpd
    \/ ExtractSegments
    \/ DecryptSegment

CallSpec == CallInit /\ [][CallNext]_vars

\* ------------------------------------------------------------------ claims

VideoWritten(p, u) == \E k \in 1..Len(written[p]) : written[p][k][1] = u
AudioWritten(p, u) == \E k \in 1..Len(written[p]) : written[p][k][2] = u

\* C1: over all iterations of one converter, aborted and retried ones
\* included, no (video URL, audio URL) pair reaches the HLS writer twice.
C1_NoPairWrittenTwice ==
    \A p \in Convs : \A i, j \in 1..Len(written[p]) :
        written[p][i] = written[p][j] => i = j

\* C2: whenever the loop is about to skip the pair at index i because both
\* URLs are in the prior lists, that video segment and that audio segment
\* were each written to the HLS writer earlier by this converter.
C2_SkippedWasWritten ==
    \A p \in Convs :
        InLoop(p) /\ AlreadyProcessed(p)
            => VideoWritten(p, video_url(p)) /\ AudioWritten(p, audio_url(p))

\* The converters ever constructed for stream s, the HLS writer processes
\* spawned for it and the worker threads started for it.
Handles(s) == {p \in 1..nconv : stream[p] = s}
Writers(s) == {p \in Convs : stream[p] = s /\ writer[p] # "none"}
Workers(s) == {p \in Convs : stream[p] = s /\ pc[p] # "none"}

\* C3: a step that takes stream s from inactive to active adds exactly one
\* handle, one HLS writer process and one worker; while s stays active (no
\* eviction in between) no step, a further activate call included, adds a
\* handle, a writer or a worker or changes the handle of s.
C3_ActivateOnce ==
    [][\A s \in Channels :
        /\ (active_streams[s] = NoConv /\ active_streams'[s] # NoConv)
              => /\ active_streams'[s] \notin Handles(s)
                 /\ Handles(s)' = Handles(s) \cup {active_streams'[s]}
                 /\ Writers(s)' = Writers(s) \cup {active_streams'[s]}
                 /\ Workers(s)' = Workers(s) \cup {active_streams'[s]}
        /\ (active_streams[s] # NoConv /\ active_streams'[s] # NoConv)
              => /\ active_streams'[s] = active_streams[s]
                 /\ Handles(s)' = Handles(s)
                 /\ Writers(s)' = Writers(s)
                 /\ Workers(s)' = Workers(s)]_vars

\* C3 witness: an activate call answered "already active" with the one
\* handle of the stream in place and its worker past start().
C3_Witness ==
    /\ resp = "Stream already active"
    /\ active_streams["c1"] = 1
    /\ nconv = 1
    /\ pc[1] = "top"

C6_ActiveImpliesWriterAlive ==
    \A p \in Convs : is_active[p] => writer[p] = "running"

\* C7: every handle the cleanup thread removes from active_streams went
\* through stop() before: is_active was cleared and the kill was issued.
C7_StoppedBeforeRemoval ==
    [][\A s \in Ids :
        (active_streams[s] # NoConv /\ active_streams'[s] = NoConv)
            => killSent[active_streams[s]]]_vars

\* C8: once file requests for stream s stop, an active s is eventually
\* evicted, whether or not it was ever requested.
C8_IdleEventuallyEvicted ==
    \A s \in Channels :
        <>[][~ProxyStream(s)]_vars
            => [](active_streams[s] # NoConv => <>(active_streams[s] = NoConv))

\* C9: the cleanup thread lists a stream for removal only if its last
\* access is strictly older than the timeout, and removes no other: a
\* stream whose age is within the timeout at the sweep stays active.
C9_RemovedOnlyIfExpired ==
    [][\A s \in Ids :
        /\ (s \in to_remove' /\ s \notin to_remove) => last_access[s] > Timeout
        /\ (active_streams[s] # NoConv /\ active_streams'[s] = NoConv)
              => last_access[s] > Timeout]_vars

\* C9 witness: a sweep has run over an active stream whose age is exactly
\* the timeout and has listed nothing.
C9_Witness ==
    /\ mgrLock = "evictor"
    /\ evPc = "stop"
    /\ to_remove = {}
    /\ nconv = 1
    /\ active_streams["c1"] = 1
    /\ last_access["c1"] = Timeout

\* C10: a file request for s renews the last-access entry of s if and
\* only if s is in active_streams; it changes no other entry and never
\* changes active_streams.
C10_TouchIffActive ==
    [][\A s \in Ids :
        ProxyStream(s)
            => /\ active_streams' = active_streams
               /\ \A r \in Ids \ {s} : last_access'[r] = last_access[r]
               /\ IF active_streams[s] # NoConv
                  THEN last_access'[s] = 0
                  ELSE last_access'[s] = last_access[s]]_vars

\* C10 witness: a file request for the active stream c1 was served and its
\* last-access entry is fresh, while the unknown id has no entry.
C10_Witness ==
    /\ resp = "file"
    /\ active_streams["c1"] = 1
    /\ last_access["c1"] = 0
    /\ last_access["zz"] = NoEntry

\* C11: an iteration whose selected lists equal the stored last_processed
\* pair writes nothing to the HLS writer, starts no segment download (it
\* returns straight to the top of the loop), and leaves last_processed,
\* the cached init segments and the scratch files as they were.
C11_SameManifestNoOp ==
    [][\A p \in Convs :
        (\E ini \in AnyInits : MpdOk(p, last_processed[p], ini))
            => /\ pc'[p] = "top"
               /\ written'[p] = written[p]
               /\ last_processed'[p] = last_processed[p]
               /\ init_segments'[p] = init_segments[p]
               /\ temp'[p] = temp[p]]_vars

\* C11 witness: a converter that has stored lists, written pairs and cached
\* an init segment is about to select its lists again.
C11_Witness ==
    \E p \in Convs :
        /\ pc[p] = "mpd"
        /\ last_processed[p] # NoSegs
        /\ written[p] # <<>>
        /\ init_segments[p] # {}

\* C12: when an iteration has returned, on success or on an error, no
\* video_<seq>.mp4 or audio_<seq>.mp4 is left in the scratch directory.
C12_NoTempFileLeft ==
    \A p \in Convs : pc[p] \in {"top", "errsleep"} => temp[p] = {}

\* C13: inside an iteration last_processed keeps the value it had when the
\* iteration began unless the iteration completes; when a pair fails, the
\* lists in hand still differ from last_processed and the failed pair is
\* not covered by it, so the next iteration over the same manifest
\* attempts that pair again.
C13_AbortKeepsLastProcessed ==
    [][\A p \in Convs :
        /\ (pc[p] \in {"mpd", "pairs"} /\ pc'[p] \in {"mpd", "pairs", "errsleep"})
              => last_processed'[p] = last_processed[p]
        /\ (pc[p] = "pairs" /\ pc'[p] = "errsleep")
              => /\ segs[p] # last_processed'[p]
                 /\ ~(/\ Contains(last_processed'[p][1], video_url(p))
                      /\ Contains(last_processed'[p][2], audio_url(p)))]_vars

\* C13 witness: an iteration has aborted after writing a pair, with a
\* scratch file left behind and nothing stored.
C13_Witness ==
    \E p \in Convs :
        /\ pc[p] = "errsleep"
        /\ written[p] # <<>>
        /\ temp[p] # {}
        /\ last_processed[p] = NoSegs

\* C14: every segment pair handled (muxed and written) increments
\* sequence_number.
C14_PairIncrementsSeq ==
    [][\A p \in Convs :
        Len(written'[p]) > Len(written[p])
            => sequence_number'[p] = sequence_number[p] + 1]_vars

\* The number of times entry s of a timeline stands for, and the number the
\* first j entries stand for.
Reps(s) == unwrap_or(s.r, 0) + 1
RECURSIVE Total(_, _)
Total(tl, j) == IF j = 0 THEN 0 ELSE Total(tl, j - 1) + Reps(tl[j])
Owner(tl, k) == CHOOSE j \in 1..Len(tl) : Total(tl, j - 1) < k /\ k <= Total(tl, j)

\* C15: the expanded list has r+1 times for each entry, in order; it starts
\* at the first entry's t (0 if absent), and each time is the previous one
\* plus the d of the entry the previous one belongs to.
C15_TimelineExpansion ==
    (call.fn = "compute_segment_times" /\ ret.done)
        => LET tl == call.timeline
               ts == ret.value
           IN  /\ Len(ts) = Total(tl, Len(tl))
               /\ Len(ts) > 0 => ts[1] = unwrap_or(tl[1].t, 0)
               /\ \A k \in 2..Len(ts) : ts[k] = ts[k - 1] + tl[Owner(tl, k - 1)].d

\* C15 witness: the entry r = 3, d = 1000, t = 5000 has been expanded.
C15_Witness ==
    /\ call = [fn |-> "compute_segment_times",
               timeline |-> <<[t |-> Some(5000), d |-> 1000, r |-> Some(3)]>>]
    /\ ret.done
    /\ ret.value = <<5000, 6000, 7000, 8000>>

\* C16: for a dynamic manifest the list is the last LiveWindow entries of
\* the list the same representation gives in a static manifest.
C16_LiveIsTailOfStatic ==
    (call.fn = "extract_segments" /\ ret.done /\ call.rp.live)
        => LET static == extract_segments([call.rp EXCEPT !.live = FALSE])
               n == Len(static)
           IN  ret.value = IF n > LiveWindow
                           THEN [k \in 1..LiveWindow |-> static[n - LiveWindow + k]]
                           ELSE static

\* C17: with an empty key decrypt_segment returns Ok with the input bytes
\* and starts no decoder.
C17_EmptyKeyIdentity ==
    (call.fn = "decrypt_segment" /\ ret.done /\ call.key = "")
        => /\ ret.value.ok
           /\ ret.value.bytes = call.data
           /\ ret.value.started = {}

\* C17 witness: a non-empty segment went through with the empty key.
C17_Witness ==
    /\ call.fn = "decrypt_segment"
    /\ call.key = ""
    /\ call.data # <<>>
    /\ ret.done

\* The pairs of the iteration in hand below index i that were not skipped,
\* in list order.
RECURSIVE Handled(_, _)
Handled(p, i) ==
    IF i = 0
    THEN <<>>
    ELSE IF /\ Contains(last_processed[p][1], segs[p][1][i])
            /\ Contains(last_processed[p][2], segs[p][2][i])
         THEN Handled(p, i - 1)
         ELSE Append(Handled(p, i - 1), <<segs[p][1][i], segs[p][2][i]>>)

\* C18: whenever the loop stands at index i, before any download of pair
\* i, every pair of the iteration below i that was not skipped has been
\* written to the HLS writer, and these are the last writes, in ascending
\* index order.
C18_WrittenInOrder ==
    \A p \in Convs :
        pc[p] = "pairs"
            => LET h == Handled(p, idx[p])
                   n == Len(written[p])
               IN  /\ n >= Len(h)
                   /\ \A k \in 1..Len(h) : written[p][n - Len(h) + k] = h[k]

\* C18 witness: the loop has skipped the first pair, written the second
\* and stands behind it.
C18_Witness ==
    \E p \in Convs :
        /\ pc[p] = "pairs"
        /\ idx[p] = 2
        /\ Len(Handled(p, 2)) = 1
        /\ writer[p] = "running"

\* The cleanup thread has listed the stream of converter p and stands at
\* (or before) the lock() of line 247 for it.
Stopping(p) ==
    /\ p <= nconv
    /\ evPc = "stop"
    /\ stream[p] \in to_remove
    /\ active_streams[stream[p]] = p

\* C19: once the cleanup thread has begun stopping a converter whose worker
\* stands at pair i of an iteration, the worker gets past no pair but i:
\* its index never exceeds i + 1.
C19_CancelBetweenPairs ==
    \A p \in Convs : \A i \in 0..MaxLen :
        [](Stopping(p) /\ pc[p] = "pairs" /\ idx[p] = i => [](idx[p] <= i + 1))

\* C20: no step taken inside an iteration ends the worker loop or clears
\* is_active: the worker goes on in the iteration, to the error sleep or
\* back to the top of the loop, still active.
C20_FailureKeepsLoop ==
    [][\A p \in Convs :
        pc[p] \in {"mpd", "pairs", "errsleep"}
            => /\ pc'[p] \in {"mpd", "pairs", "errsleep", "top"}
               /\ is_active'[p]]_vars

\* What process_mpd returns when the selection resolved neither side:
\* lines 173-176 and 279-287, both vectors as created and both init URLs None.
Unresolved(s, urls) == s = NoSegs /\ urls = {}

\* A step of an iteration whose manifest stage failed: process_mpd returned
\* Err (the loop goes to its error sleep), or it returned Ok with neither
\* side resolved and the iteration goes on to its end.
FailedManifestStep(p) ==
    \/ pc[p] = "mpd" /\ pc'[p] = "errsleep"
    \/ pc[p] = "mpd" /\ pc'[p] = "pairs" /\ Unresolved(segs'[p], init_urls'[p])
    \/ pc[p] = "pairs" /\ Unresolved(segs[p], init_urls[p]) /\ pc'[p] = "top"

\* C21: an iteration whose manifest fetch, parse or representation
\* selection failed changes nothing of the converter: last_processed, the
\* cached init segments and sequence_number keep their values and nothing
\* reaches the HLS writer.
C21_ManifestFailureNoMutation ==
    [][\A p \in Convs :
        FailedManifestStep(p)
            => /\ last_processed'[p] = last_processed[p]
               /\ init_segments'[p] = init_segments[p]
               /\ sequence_number'[p] = sequence_number[p]
               /\ written'[p] = written[p]]_vars

\* C22: with a non-empty key, when mp4decrypt fails and the ffmpeg fallback
\* cannot be started, breaks on its pipes or gives no output, decrypt_segment
\* returns Ok with the bytes it was given.
C22_FallbackReturnsInput ==
    (/\ call.fn = "decrypt_segment"
     /\ ret.done
     /\ call.key # ""
     /\ call.decoders \in {"fallback_empty", "spawn_err", "pipe_err"})
        => /\ ret.value.ok
           /\ ret.value.bytes = call.data

\* lines 597-603: download_and_decrypt_segment puts the cached init segment
\* of the side in front of the bytes when init_segments has one
Prefixed(p, k) == k \in init_segments[p]

\* C23: whenever a pair has gone through download, decrypt, mux and write,
\* each side whose representation declares an initialization URL in this
\* iteration had its segment handed to decrypt_segment behind the init
\* segment of that side.
C23_InitPrefixed ==
    [][\A p \in Convs :
        Len(written'[p]) > Len(written[p])
            => \A k \in init_urls[p] : Prefixed(p, k)]_vars

\* the representations of the manifest in adaptation sets of kind k
RepsOfKind(mpd, k) == {x \in RepRefs(mpd) : IsKind(mpd[x[1]][x[2]], k)}
BandwidthAt(mpd, x) == bandwidth(mpd[x[1]][x[2]].representations[x[3]])

\* C24: a side the preferred-index pass left unresolved is resolved by the
\* fallback pass whenever the manifest has a representation of that kind:
\* video by a representation of the greatest bandwidth among all video
\* representations of the manifest, audio by the first audio representation
\* in document order; a side the preferred-index pass resolved keeps its
\* representation.
C24_FallbackSelection ==
    (call.fn = "extract_segments_from_mpd" /\ ret.done)
        => LET mpd == call.mpd
               pre == PreferredPass(mpd)
               sel == ret.value
               videos == RepsOfKind(mpd, "video")
               audios == RepsOfKind(mpd, "audio")
           IN  /\ (pre.video = None /\ videos # {})
                    => /\ sel.video # None
                       /\ \A x \in videos :
                             BandwidthAt(mpd, x) <= BandwidthAt(mpd, sel.video[1])
               /\ (pre.audio = None /\ audios # {})
                    => sel.audio = FirstRef(audios)
               /\ pre.video # None => sel.video = pre.video
               /\ pre.audio # None => sel.audio = pre.audio

\* one step of the fold: an absent entry leaves the accumulator, an absolute
\* one replaces it, a relative one is joined onto it behind one separator
FoldBase(acc, entry) ==
    IF entry = None
    THEN acc
    ELSE IF starts_with_http(entry[1])
    THEN entry[1]
    ELSE trim_end_matches(acc) \o <<"/">> \o entry[1]

\* C25: the base URL a representation's templates are resolved against is
\* the fold, from the manifest URL, of the manifest-level base, the period
\* base and the representation base, in that order.
C25_BaseUrlFold ==
    (call.fn = "base_url_str" /\ ret.done)
        => ret.value = FoldBase(FoldBase(FoldBase(call.mpd_url, call.mpd_base),
                                         call.period_base),
                                call.rep_base)

\* C26: every stream id with an entry in last_access has a handle in
\* active_streams.
C26_AccessOnlyIfActive ==
    \A s \in Ids : last_access[s] # NoEntry => active_streams[s] # NoConv

\* C26 witness: a stream was activated and touched, and the cleanup thread
\* has removed it: both entries are gone and the directory with them.
C26_Witness ==
    \E p \in Convs :
        /\ p <= nconv
        /\ killSent[p]
        /\ active_streams[stream[p]] = NoConv
        /\ last_access[stream[p]] = NoEntry
        /\ evPc = "sleep"

\* stop() has run on converter p: the flag is cleared and the kill issued
Stopped(p) == killSent[p] /\ ~is_active[p]

\* C27: once stop() has cleared is_active of a converter, no step sets it
\* again, whatever the order of the worker's start() and the cleanup
\* thread's stop().
C27_StoppedStaysStopped ==
    [][\A p \in Convs : Stopped(p) => ~is_active'[p]]_vars

\* The cleanup thread, holding the manager mutex, stands in lock() of line
\* 247 on converter p, whose worker holds it
EvictorWaitsFor(p) ==
    /\ mgrLock = "evictor"
    /\ evPc = "stop"
    /\ \E s \in to_remove : active_streams[s] = p
    /\ convLock[p] = "worker"

\* C28: no deadlock over the manager mutex and the converter mutexes. A
\* worker that holds its converter mutex can take a step whoever holds the
\* manager mutex, and the cleanup thread, while it holds the manager mutex,
\* can take a step or waits for a converter mutex held by such a worker.
C28_DeadlockFree ==
    /\ \A p \in Convs :
          convLock[p] = "worker" => ENABLED Worker(p, FailingOrigin)
    /\ mgrLock = "evictor"
          => \/ ENABLED Evictor
             \/ \E p \in Convs : EvictorWaitsFor(p)

\* C28 witness: handlers wait for the manager mutex held by the cleanup
\* thread, which waits for the converter mutex held by a worker in its
\* error sleep.
C28_Witness ==
    \E p \in Convs : EvictorWaitsFor(p) /\ pc[p] = "errsleep" /\ ~ENABLED Evictor

\* C29: the manager mutex is never held by a thread that waits for a
\* converter mutex held by a worker across an iteration (manifest stage,
\* pair loop or error sleep), so no manager operation waits for an
\* iteration to end.
C29_ManagerNeverWaitsForIteration ==
    \A p \in Convs :
        pc[p] \in {"mpd", "pairs", "errsleep"} => ~EvictorWaitsFor(p)

\* C30: an activate whose construction fails (output directory, scratch
\* directory or writer subprocess) answers with an error, leaves
\* active_streams and last_access as they were, and leaves the manager
\* mutex free and unpoisoned, so that every later manager operation
\* completes.
FailedConstruction(s, outcome) ==
    /\ s \in Channels
    /\ active_streams[s] = NoConv
    /\ outcome # "ok"
    /\ InitializeStream(s, outcome)

C30_ConstructionFailureContained ==
    [][\A s \in Ids, outcome \in Outcomes :
          FailedConstruction(s, outcome)
              => /\ resp' = "Failed to create converter"
                 /\ UNCHANGED <<active_streams, last_access>>
                 /\ MgrLockable']_vars
====
